---- MODULE Spec2Model ----
(***************************************************************************)
(* The sales dashboard script app.py as a state machine.  One execution   *)
(* of the script (a Streamlit run) is one action: the first run uses the  *)
(* widgets' default selection, every later run is triggered by a change   *)
(* of the two multiselects.  Money is kept in cents, so that SalePrice    *)
(* 5.00 is 500 and the sums are exact; the regression is computed over    *)
(* the rationals.                                                          *)
(***************************************************************************)
EXTENDS Integers, Sequences, FiniteSets, TLC

VARIABLES source, cache, load_calls, df, cycle, region, product,
          df_selection, warning, kpis, monthly_revenue, sales_by_region,
          sales_by_product, forecast_df, top_region

vars == <<source, cache, load_calls, df, cycle, region, product,
          df_selection, warning, kpis, monthly_revenue, sales_by_region,
          sales_by_product, forecast_df, top_region>>

\* ------------------------------------------------------------------ bounds
MaxRows == 3

\* A value that was not computed in a run is None, a computed one is Some(v).
None == <<>>
Some(v) == <<v>>

NaN == "NaN"

\* ------------------------------------------------------- sales_data.csv
CsvRow(d, r, p, u, s) ==
    [OrderDate |-> d, Region |-> r, Product |-> p, UnitsSold |-> u, SalePrice |-> s]

CsvRows ==
    { CsvRow(<<2024, 1, 15>>, "East", "Widget", 10, 500),
      CsvRow(<<2024, 2, 3>>, "East", "Widget", 20, 500),
      CsvRow(<<2024, 3, 28>>, "East", "Widget", 30, 500),
      CsvRow(<<2024, 1, 9>>, "West", "Widget", 10, 500),
      CsvRow(<<2024, 3, 1>>, "West", "Gadget", 20, 250),
      CsvRow(<<2024, 11, 30>>, "East", "Gadget", 30, 500),
      CsvRow(<<2024, 12, 31>>, "North", "Widget", 10, 500) }

CsvFiles == UNION { [1..n -> CsvRows] : n \in 0..MaxRows }

\* ------------------------------------------------------------- helpers
RECURSIVE sum(_)
sum(s) == IF s = <<>> THEN 0 ELSE s[1] + sum(Tail(s))

column(d, c) == [i \in DOMAIN d |-> d[i][c]]

Range(s) == { s[i] : i \in DOMAIN s }

\* The k-th smallest element of a finite set of integers.
nth(S, k) == CHOOSE i \in S : Cardinality({ j \in S : j <= i }) = k

\* unique() wrongly keeping only the first value.
unique_first_only(s) == IF s = <<>> THEN <<>> ELSE <<s[1]>>

\* Series.unique(): the distinct values in order of first appearance.
unique(s) ==
    LET firsts == { i \in DOMAIN s : \A j \in 1..(i - 1) : s[j] # s[i] }
    IN  [k \in 1..Cardinality(firsts) |-> s[nth(firsts, k)]]

\* Period('M') ordinal of a date, and its '%Y-%m' string (year, month).
to_period_M(date) == date[1] * 12 + (date[2] - 1)

strftime_Ym(ord) == <<ord \div 12, (ord % 12) + 1>>

\* pd.to_datetime('YYYY-MM'): the first day of that month.
to_datetime(ym) == <<ym[1], ym[2], 1>>

\* Order of the strings groupby sorts its keys by.
month_rank(ym) == ym[1] * 100 + ym[2]

collation == [East |-> 1, Gadget |-> 2, North |-> 3, West |-> 4, Widget |-> 5]

str_rank(s) == collation[s]

\* The sort order of a group key: Month and the category columns are strings.
key_rank(key, x) == IF key = "Month" THEN month_rank(x) ELSE str_rank(x)

\* ------------------------------------------------------------ load_data
load_data(src) ==
    [i \in DOMAIN src |->
        [OrderDate |-> src[i].OrderDate,
         Region    |-> src[i].Region,
         Product   |-> src[i].Product,
         UnitsSold |-> src[i].UnitsSold,
         SalePrice |-> src[i].SalePrice,
         Revenue   |-> src[i].UnitsSold * src[i].SalePrice,
         Month     |-> strftime_Ym(to_period_M(src[i].OrderDate))]]

\* A cache that never hits: load_data runs on every run.
cache_never_hit(c) == FALSE

\* @st.cache_data: the body of load_data runs only when nothing is cached.
cache_hit(c) == c # None

\* ------------------------------------------------------------- filter
\* The query with "|" in place of "&".
df_selection_query_or(d, r, p) ==
    SelectSeq(d, LAMBDA t : t.Region \in r \/ t.Product \in p)

\* df.query("Region == @region & Product == @product"): a comparison with a
\* list is membership in it.
df_selection_query(d, r, p) ==
    SelectSeq(d, LAMBDA t : t.Region \in r /\ t.Product \in p)

\* The emptiness check left out.
empty_never(d) == FALSE

\* DataFrame.empty
empty(d) == Len(d) = 0

\* ---------------------------------------------------------------- KPIs
total_revenue(sel) == sum(column(sel, "Revenue")) \div 100

total_units_sold(sel) == sum(column(sel, "UnitsSold"))

\* round(n / d) to the nearest integer, a tie to the even one.
round_half_even(n, d) ==
    LET q == n \div d
        r2 == 2 * (n % d)
    IN  IF r2 < d THEN q
        ELSE IF r2 > d THEN q + 1
        ELSE IF q % 2 = 0 THEN q ELSE q + 1

\* round(mean(SalePrice), 2), in cents; the mean of no value is NaN.
avg_sale_price(sel) ==
    IF Len(sel) = 0 THEN NaN
    ELSE round_half_even(sum(column(sel, "SalePrice")), Len(sel))

\* ---------------------------------------------------------- aggregation
\* groupby(key)[val].first() in place of .sum().
groupby_first(d, key, val) ==
    LET keys == Range(column(d, key))
        kth(k) == CHOOSE x \in keys :
                      Cardinality({ y \in keys : key_rank(key, y) < key_rank(key, x) }) = k - 1
        total(x) == column(SelectSeq(d, LAMBDA t : t[key] = x), val)[1]
    IN  [k \in 1..Cardinality(keys) |->
            [c \in {key, val} |-> IF c = key THEN kth(k) ELSE total(kth(k))]]

\* d.groupby(key)[val].sum().reset_index(): one row per distinct key, the
\* keys in ascending order, the values of the key's rows added up.
groupby_sum(d, key, val) ==
    LET keys == Range(column(d, key))
        kth(k) == CHOOSE x \in keys :
                      Cardinality({ y \in keys : key_rank(key, y) < key_rank(key, x) }) = k - 1
        total(x) == sum(column(SelectSeq(d, LAMBDA t : t[key] = x), val))
    IN  [k \in 1..Cardinality(keys) |->
            [c \in {key, val} |-> IF c = key THEN kth(k) ELSE total(kth(k))]]

\* sort_values() with the default ascending=True.
sort_values_ascending(g, val) ==
    { [i \in DOMAIN g |-> g[q[i]]] :
        q \in { f \in Permutations(DOMAIN g) :
                  \A i \in 1..(Len(g) - 1) : g[f[i]][val] <= g[f[i + 1]][val] } }

\* Series.sort_values(ascending=False) with the default kind='quicksort',
\* which is not a stable sort: every arrangement of the rows with
\* non-increasing values is a possible result.
sort_values_descending(g, val) ==
    { [i \in DOMAIN g |-> g[q[i]]] :
        q \in { f \in Permutations(DOMAIN g) :
                  \A i \in 1..(Len(g) - 1) : g[f[i]][val] >= g[f[i + 1]][val] } }

monthly_revenue_of(sel) == groupby_sum(sel, "Month", "Revenue")

sales_by_region_of(sel) ==
    sort_values_descending(groupby_sum(sel, "Region", "Revenue"), "Revenue")

sales_by_product_of(sel) ==
    sort_values_descending(groupby_sum(sel, "Product", "UnitsSold"), "UnitsSold")

\* sales_by_region.iloc[0]; IndexError on an empty frame ends the script.
top_region_of(sbr) == IF Len(sbr) = 0 THEN None ELSE Some(sbr[1])

\* ----------------------------------------------------------- rationals
abs(n) == IF n < 0 THEN -n ELSE n

RECURSIVE gcd(_, _)
gcd(a, b) == IF b = 0 THEN a ELSE gcd(b, a % b)

\* n / d in lowest terms with a positive denominator (d # 0).
rat(n, d) ==
    LET s == IF d < 0 THEN -1 ELSE 1
        g == gcd(abs(n), abs(d))
    IN  <<(s * n) \div g, (s * d) \div g>>

rat_add(a, b) == rat(a[1] * b[2] + b[1] * a[2], a[2] * b[2])

rat_sub(a, b) == rat(a[1] * b[2] - b[1] * a[2], a[2] * b[2])

rat_mul(a, b) == rat(a[1] * b[1], a[2] * b[2])

\* ---------------------------------------------------------- forecasting
ForecastMonths == 6

\* The forecast input grouped from the filtered frame.
monthly_data_of_selection(d, sel) ==
    LET g == groupby_sum(sel, "Month", "Revenue")
    IN  [i \in DOMAIN g |->
            [Month |-> g[i].Month, Revenue |-> g[i].Revenue, Month_Num |-> i - 1]]

\* df.groupby('Month')['Revenue'].sum().reset_index() with the column
\* Month_Num = arange(len).  The script has both frames in scope here, the
\* full one (d) and the filtered one (sel), and groups the full one.
monthly_data_of(d, sel) ==
    LET g == groupby_sum(d, "Month", "Revenue")
    IN  [i \in DOMAIN g |->
            [Month |-> g[i].Month, Revenue |-> g[i].Revenue, Month_Num |-> i - 1]]

\* LinearRegression().fit(X, y): ordinary least squares with an intercept.
\* With a single sample the centred system is zero and the least-norm
\* solution has coefficient 0.
LinearRegression_fit(X, y) ==
    LET n   == Len(X)
        Sx  == sum(X)
        Sy  == sum(y)
        Sxy == sum([i \in DOMAIN X |-> X[i] * y[i]])
        Sxx == sum([i \in DOMAIN X |-> X[i] * X[i]])
        D   == n * Sxx - Sx * Sx
        N   == n * Sxy - Sx * Sy
        coef == IF D = 0 THEN <<0, 1>> ELSE rat(N, D)
    IN  [coef_ |-> coef,
         intercept_ |-> rat_sub(rat(Sy, n), rat_mul(coef, rat(Sx, n)))]

predict(model, x) == rat_add(rat_mul(model.coef_, rat(x, 1)), model.intercept_)

\* The future indices starting one too late.
future_months_num_late(md) == [i \in 1..ForecastMonths |-> Len(md) + i]

\* np.arange(len(monthly_data), len(monthly_data) + 6)
future_months_num(md) == [i \in 1..ForecastMonths |-> Len(md) + i - 1]

future_sales(md) ==
    LET model == LinearRegression_fit(column(md, "Month_Num"), column(md, "Revenue"))
    IN  [i \in 1..ForecastMonths |-> predict(model, future_months_num(md)[i])]

\* pd.to_datetime(monthly_data['Month'].iloc[-1]).to_period('M')
last_month(md) == to_period_M(to_datetime(md[Len(md)].Month))

\* The labels taken over range(0, 6).
future_month_labels_from_last(md) ==
    [i \in 1..ForecastMonths |-> strftime_Ym(last_month(md) + i - 1)]

\* [(last_month + i).strftime('%Y-%m') for i in range(1, 7)]
future_month_labels(md) ==
    [i \in 1..ForecastMonths |-> strftime_Ym(last_month(md) + i)]

\* The forecast frame; fitting on no sample raises and ends the script.
forecast_df_of(md) ==
    IF Len(md) = 0 THEN None
    ELSE Some([i \in 1..ForecastMonths |->
                 [Month |-> future_month_labels(md)[i],
                  Forecasted_Revenue |-> future_sales(md)[i]]])

\* ------------------------------------------------------------ the script
TypeOK ==
    /\ source \in CsvFiles
    /\ load_calls \in 0..1
    /\ cycle \in {"none", "first", "rerun"}
    /\ warning \in BOOLEAN

Init ==
    /\ source \in CsvFiles
    /\ cache = None
    /\ load_calls = 0
    /\ df = <<>>
    /\ cycle = "none"
    /\ region = {}
    /\ product = {}
    /\ df_selection = <<>>
    /\ warning = FALSE
    /\ kpis = None
    /\ monthly_revenue = None
    /\ sales_by_region = None
    /\ sales_by_product = None
    /\ forecast_df = None
    /\ top_region = None

\* Lines 44-52: the selection is empty, the warning is shown and st.stop()
\* ends the run before anything else is computed.
Stopped(sel) ==
    /\ empty(sel)
    /\ warning' = TRUE
    /\ kpis' = None
    /\ monthly_revenue' = None
    /\ sales_by_region' = None
    /\ sales_by_product' = None
    /\ forecast_df' = None
    /\ top_region' = None

\* Lines 54-183: KPIs, the three aggregates, the forecast and the insight.
Rendered(d, sel) ==
    /\ ~empty(sel)
    /\ warning' = FALSE
    /\ kpis' = Some([total_revenue |-> total_revenue(sel),
                     total_units_sold |-> total_units_sold(sel),
                     avg_sale_price |-> avg_sale_price(sel)])
    /\ monthly_revenue' = Some(monthly_revenue_of(sel))
    /\ \E sbr \in sales_by_region_of(sel) :
          /\ sales_by_region' = Some(sbr)
          /\ top_region' = top_region_of(sbr)
    /\ \E sbp \in sales_by_product_of(sel) : sales_by_product' = Some(sbp)
    /\ forecast_df' = forecast_df_of(monthly_data_of(d, sel))

\* One execution of the script with the multiselects returning r and p.
Script(r, p) ==
    LET hit == cache_hit(cache)
        d   == IF hit THEN cache[1] ELSE load_data(source)
        sel == df_selection_query(d, r, p)
    IN  /\ cache' = Some(d)
        /\ load_calls' = IF hit THEN load_calls ELSE load_calls + 1
        /\ df' = d
        /\ region' = r
        /\ product' = p
        /\ df_selection' = sel
        /\ \/ Stopped(sel)
           \/ Rendered(d, sel)
        /\ UNCHANGED source

\* The first run: both multiselects return their default, all options.
FirstRun ==
    /\ cycle = "none"
    /\ cycle' = "first"
    /\ LET d == load_data(source)
       IN  Script(Range(unique(column(d, "Region"))),
                  Range(unique(column(d, "Product"))))

\* A rerun after the user changed a multiselect: any subsets of the options.
Rerun ==
    /\ cycle # "none"
    /\ cycle' = "rerun"
    /\ \E r \in SUBSET Range(unique(column(df, "Region"))),
          p \in SUBSET Range(unique(column(df, "Product"))) :
          Script(r, p)

Next == FirstRun \/ Rerun

Spec == Init /\ [][Next]_vars

\* ====================================================== properties
\* The month of a transaction, read from its order date.
MonthOf(t) == <<t.OrderDate[1], t.OrderDate[2]>>

Months(d) == { MonthOf(d[i]) : i \in DOMAIN d }

Earlier(a, b) == a[1] < b[1] \/ (a[1] = b[1] /\ a[2] < b[2])

LatestMonth(d) == CHOOSE m \in Months(d) : \A o \in Months(d) : o = m \/ Earlier(o, m)

NextMonth(ym) == IF ym[2] = 12 THEN <<ym[1] + 1, 1>> ELSE <<ym[1], ym[2] + 1>>

RECURSIVE AddMonths(_, _)
AddMonths(ym, k) == IF k = 0 THEN ym ELSE NextMonth(AddMonths(ym, k - 1))

\* The indices of the transactions of df the current selection admits.
Admitted == { i \in DOMAIN df : df[i].Region \in region /\ df[i].Product \in product }

\* f(t) added up over the transactions d[i], i in S.
RevenueOver(d, S) ==
    sum([k \in 1..Cardinality(S) |-> d[nth(S, k)].UnitsSold * d[nth(S, k)].SalePrice])

UnitsOver(d, S) == sum([k \in 1..Cardinality(S) |-> d[nth(S, k)].UnitsSold])

AllRegions == { df[i].Region : i \in DOMAIN df }

AllProducts == { df[i].Product : i \in DOMAIN df }

NothingComputed ==
    /\ kpis = None
    /\ monthly_revenue = None
    /\ sales_by_region = None
    /\ sales_by_product = None
    /\ forecast_df = None
    /\ top_region = None

\* C1: a run whose selection admits no transaction shows the warning and
\* computes no KPI, no aggregate, no forecast and no insight.
C1_EmptySelectionStops ==
    (cycle # "none" /\ Admitted = {}) => (warning /\ NothingComputed)

\* An empty selection although both multiselects name something.
C1_Witness ==
    /\ cycle = "rerun"
    /\ region # {}
    /\ product # {}
    /\ df # <<>>
    /\ Admitted = {}
    /\ warning

\* C2: the filtered frame holds exactly the admitted transactions, in the
\* order of the dataset.
C2_FilterIsConjunction ==
    cycle # "none" =>
        /\ Len(df_selection) = Cardinality(Admitted)
        /\ \A k \in 1..Len(df_selection) : df_selection[k] = df[nth(Admitted, k)]

\* A transaction of a selected region is left out for its product alone.
C2_Witness ==
    /\ cycle = "rerun"
    /\ Len(df_selection) >= 2
    /\ \E i \in DOMAIN df : df[i].Region \in region /\ df[i].Product \notin product

\* C3: the default selection is all distinct regions and products, and
\* under that selection the filtered frame is the whole dataset.
C3_DefaultIsIdentity ==
    /\ cycle = "first" => (region = AllRegions /\ product = AllProducts)
    /\ (cycle # "none" /\ region = AllRegions /\ product = AllProducts)
           => df_selection = df

C3_Witness ==
    /\ cycle = "first"
    /\ Cardinality(region) >= 2
    /\ Cardinality(product) >= 2
    /\ Len(df) = MaxRows
    /\ df_selection = df

\* C4: the monthly aggregate adds up to the revenue of the filtered
\* transactions and has a row for exactly the months that occur in them.
C4_MonthlyConservation ==
    monthly_revenue # None =>
        LET mr == monthly_revenue[1]
        IN  /\ sum(column(mr, "Revenue")) = RevenueOver(df, Admitted)
            /\ Range(column(mr, "Month")) = { MonthOf(df[i]) : i \in Admitted }
            /\ Len(mr) = Cardinality({ MonthOf(df[i]) : i \in Admitted })
            /\ \A k \in DOMAIN mr : mr[k].Revenue > 0

\* A month of the dataset is absent and another month adds up several rows.
C4_Witness ==
    /\ monthly_revenue # None
    /\ Len(df_selection) > Len(monthly_revenue[1])
    /\ \E m \in Months(df) : m \notin Range(column(monthly_revenue[1], "Month"))

FirstSeen(d, r) == nth({ i \in DOMAIN d : d[i].Region = r }, 1)

\* C5 as stated: descending by revenue, equal revenues in the order in
\* which the regions first appear in the dataset.
C5_TiesFirstSeen ==
    sales_by_region # None =>
        LET s == sales_by_region[1]
        IN  \A i, j \in DOMAIN s : i < j =>
                \/ s[i].Revenue > s[j].Revenue
                \/ /\ s[i].Revenue = s[j].Revenue
                   /\ FirstSeen(df, s[i].Region) < FirstSeen(df, s[j].Region)

\* C5 amended: one row per region of the filtered transactions with its
\* summed revenue, descending by revenue; nothing about equal revenues.
C5_Descending ==
    sales_by_region # None =>
        LET s == sales_by_region[1]
        IN  /\ Range(column(s, "Region")) = { df[i].Region : i \in Admitted }
            /\ Len(s) = Cardinality({ df[i].Region : i \in Admitted })
            /\ \A k \in DOMAIN s :
                  s[k].Revenue =
                      RevenueOver(df, { i \in Admitted : df[i].Region = s[k].Region })
            /\ \A i, j \in DOMAIN s : i < j => s[i].Revenue >= s[j].Revenue

C5_Witness ==
    /\ sales_by_region # None
    /\ Len(sales_by_region[1]) = 3
    /\ sales_by_region[1][1].Revenue > sales_by_region[1][2].Revenue
    /\ sales_by_region[1][2].Revenue = sales_by_region[1][3].Revenue

\* C6 as stated: with a single month of history no forecast is produced.
C6_SingleMonthFails ==
    (cycle # "none" /\ ~warning /\ Cardinality(Months(df)) = 1) => forecast_df = None

\* C7: a forecast has 6 points labelled with the 6 calendar months that
\* follow the latest month of the dataset.
C7_ForecastLabels ==
    forecast_df # None =>
        LET f == forecast_df[1]
        IN  /\ Len(f) = 6
            /\ \A k \in 1..6 : f[k].Month = AddMonths(LatestMonth(df), k)
            /\ \A k \in 1..5 : Earlier(f[k].Month, f[k + 1].Month)
            /\ \A k \in 1..6 : f[k].Month \notin Months(df)

\* History with a gap, and labels that cross the year boundary.
C7_Witness ==
    /\ forecast_df # None
    /\ LatestMonth(df) = <<2024, 11>>
    /\ Months(df) = {<<2024, 1>>, <<2024, 11>>}
    /\ forecast_df[1][1].Month = <<2024, 12>>
    /\ forecast_df[1][2].Month = <<2025, 1>>

\* C8: a history rising by the same amount from each present month to the
\* next is continued by that amount.
C8_LinearExtrapolation ==
    forecast_df # None =>
        LET h == monthly_data_of(df, df)
            n == Len(h)
            delta == h[2].Revenue - h[1].Revenue
        IN  (/\ n >= 2
             /\ delta > 0
             /\ \A i \in 1..(n - 1) : h[i + 1].Revenue - h[i].Revenue = delta)
            => \A k \in 1..6 :
                   forecast_df[1][k].Forecasted_Revenue = <<h[n].Revenue + k * delta, 1>>

\* 50, 100, 150 for 2024-01..03 continued by 200, ..., 450 for 2024-04..09.
C8_Witness ==
    /\ forecast_df # None
    /\ column(monthly_data_of(df, df), "Revenue") = <<5000, 10000, 15000>>
    /\ column(monthly_data_of(df, df), "Month") = <<<<2024, 1>>, <<2024, 2>>, <<2024, 3>>>>
    /\ column(forecast_df[1], "Forecasted_Revenue") =
           <<<<20000, 1>>, <<25000, 1>>, <<30000, 1>>, <<35000, 1>>, <<40000, 1>>, <<45000, 1>>>>
    /\ column(forecast_df[1], "Month") =
           <<<<2024, 4>>, <<2024, 5>>, <<2024, 6>>, <<2024, 7>>, <<2024, 8>>, <<2024, 9>>>>

KpisFollowFilter ==
    kpis # None =>
        /\ kpis[1].total_units_sold = UnitsOver(df, Admitted)
        /\ kpis[1].total_revenue = RevenueOver(df, Admitted) \div 100

\* C9: two runs that both render show the same forecast whatever their
\* selections, while the KPIs are those of the selection.
C9_ForecastIgnoresFilter ==
    /\ []KpisFollowFilter
    /\ [][(forecast_df # None /\ forecast_df' # None) => forecast_df' = forecast_df]_vars

C9_Witness ==
    /\ cycle = "rerun"
    /\ forecast_df # None
    /\ Cardinality(Months(df)) >= 2
    /\ Cardinality({ MonthOf(df[i]) : i \in Admitted }) = 1
    /\ kpis[1].total_units_sold < UnitsOver(df, DOMAIN df)

\* C10: the dataset is loaded by the first run and never again, and no
\* run changes it.
C10_DatasetReadOnly ==
    /\ [](cycle # "none" => (load_calls = 1 /\ Len(df) = Len(source)))
    /\ [][cycle # "none" => (df' = df /\ load_calls' = load_calls)]_vars

C10_Witness ==
    /\ cycle = "rerun"
    /\ load_calls = 1
    /\ Len(df) = MaxRows
    /\ region # AllRegions

====
